---- MODULE Spec2Model ----
(***************************************************************************)
(* Model of the table-function (row expansion) operator of the pipeline    *)
(* engine: be/src/pipeline/exec/table_function_operator.cpp.               *)
(*                                                                         *)
(* The local state (TableFunctionLocalState) owns N table functions, the   *)
(* child block and the row cursor; get_expanded_block fills one output     *)
(* block per call.  The loop of get_expanded_block is modelled step by     *)
(* step (pc), every step being a pure operator on the "machine" record so  *)
(* that a whole call can also be evaluated as a function (RunFill).        *)
(***************************************************************************)
EXTENDS Integers, Sequences, FiniteSets, TLC

\* ------------------------------------------------------------------ bounds
MaxFn == 2
MaxVals == 2
MaxRows == 2
MaxBatch == 2
\* The end-to-end scenario: up to E2EVals values, batches of up to E2EBatch rows.
E2EVals == 3
E2EBatch == 3
\* The helpers called on their own: up to ProbeFn instances.
ProbeFn == 3

\* The default value insert_default() puts in a nullable column.
NULL == 0

VARIABLES
    fn_num,                     \* TableFunctionOperatorX::_fn_num
    is_outer,                   \* TableFunction::is_outer() of each _fns[i]
    batch_size,                 \* RuntimeState::batch_size()
    max_vals,                   \* the most values an instance finds in a row of the child
    fns,                        \* _fns: per instance cur_size, cur_offset, eos
    child_block,                \* _child_block: the rows still owned
    cur_child_offset,           \* _cur_child_offset
    current_row_insert_times,   \* _current_row_insert_times
    child_eos,                  \* _child_eos
    pc,                         \* idle, push, or the loop of get_expanded_block to run next
    columns,                    \* the N table-function output columns
    pass_column,                \* a needed pass-through column (_output_slot_indexs)
    useless_column,             \* an unreferenced pass-through column (_useless_slot_indexs)
    skip_child_row,             \* local of get_expanded_block
    status,                     \* Status returned by the last call
    eos,                        \* *eos of the last call
    cancelled,                  \* RuntimeState::is_cancelled()
    origin,                     \* history: offset of the row bound when each output row was appended
    row_hist,                   \* history: combinations appended for the bound row
    row_copies,                 \* history: pass-through copies inserted for the bound row
    last_row,                   \* history: the row that was left last
    rows_complete,              \* history: rows of this block left after their full expansion
    calls,                      \* history: calls made by the last step
    ret,                        \* history: the last step returned from get_expanded_block
    block_rows,                 \* history: rows of the block pushed last
    rows_skipped,               \* history: rows of this block left through the skip branch
    eos_returns,                \* history: calls that reported end of stream (2: two or more)
    probe                       \* history: a helper called on its own, its arguments and result

vars == <<fn_num, is_outer, batch_size, max_vals, fns, child_block, cur_child_offset,
          current_row_insert_times, child_eos, pc, columns, pass_column,
          useless_column, skip_child_row, status, eos, cancelled,
          origin, row_hist, row_copies, last_row, rows_complete, calls, ret,
          block_rows, rows_skipped, eos_returns, probe>>

Min(a, b) == IF a < b THEN a ELSE b

Repeat(v, n) == [j \in 1..n |-> v]

\* A call of `op` on instance i with count n, the output block holding `at` rows.
CallAt(op, i, n, at) == [op |-> op, i |-> i, n |-> n, at |-> at]

Call(op, i, n) == CallAt(op, i, n, 0)

\* ------------------------------------------------ the table function contract
\* process_row: bind the instance to a row with `size` values.
process_row(size) == [cur_size |-> size, cur_offset |-> 0, eos |-> FALSE]

current_empty(f) == f.cur_size = 0

\* forward(step): advance; eos once no value remains.
forward(f, step) ==
    IF current_empty(f)
    THEN [f EXCEPT !.eos = TRUE]
    ELSE [f EXCEPT !.cur_offset = f.cur_offset + step,
                   !.eos = f.eos \/ (f.cur_offset + step >= f.cur_size)]

\* reset(): back to the first value of the bound row.
reset(f) == [f EXCEPT !.eos = FALSE, !.cur_offset = 0]

\* get_value(column, max_step): the values appended to the column (the
\* instance is then forwarded by their number).
get_value(f, max_step) ==
    IF current_empty(f)
    THEN <<NULL>>
    ELSE [j \in 1..Min(max_step, f.cur_size - f.cur_offset) |-> f.cur_offset + j]

\* get_same_many_values(column, length): the current value, length times.
get_same_many_values(f, length) ==
    Repeat(IF current_empty(f) THEN NULL ELSE f.cur_offset + 1, length)

\* ----------------------------------------------------------- the machine
\* The fields the steps of get_expanded_block read and write.
Mach ==
    [fns |-> fns, child_block |-> child_block, cur_child_offset |-> cur_child_offset,
     current_row_insert_times |-> current_row_insert_times, pc |-> pc,
     columns |-> columns, pass_column |-> pass_column,
     useless_column |-> useless_column, skip_child_row |-> skip_child_row,
     status |-> status, eos |-> eos, origin |-> origin, row_hist |-> row_hist,
     row_copies |-> row_copies, last_row |-> last_row,
     rows_complete |-> rows_complete, calls |-> calls, ret |-> ret,
     block_rows |-> block_rows, rows_skipped |-> rows_skipped]

\* What the steps read and never write.
Cfg ==
    [fn_num |-> fn_num, is_outer |-> is_outer, batch_size |-> batch_size,
     child_eos |-> child_eos, cancelled |-> cancelled, max_vals |-> max_vals]

Install(m) ==
    /\ fns' = m.fns
    /\ child_block' = m.child_block
    /\ cur_child_offset' = m.cur_child_offset
    /\ current_row_insert_times' = m.current_row_insert_times
    /\ pc' = m.pc
    /\ columns' = m.columns
    /\ pass_column' = m.pass_column
    /\ useless_column' = m.useless_column
    /\ skip_child_row' = m.skip_child_row
    /\ status' = m.status
    /\ eos' = m.eos
    /\ origin' = m.origin
    /\ row_hist' = m.row_hist
    /\ row_copies' = m.row_copies
    /\ last_row' = m.last_row
    /\ rows_complete' = m.rows_complete
    /\ calls' = m.calls
    /\ ret' = m.ret
    /\ block_rows' = m.block_rows
    /\ rows_skipped' = m.rows_skipped

\* ------------------------------------------- what the expansion should be
Contribution(size, outer) == IF size > 0 THEN size ELSE IF outer THEN 1 ELSE 0

RECURSIVE ProductFrom(_, _, _, _)
\* Product of the contributions of instances i..n (1-based).
ProductFrom(sizes, outer, i, n) ==
    IF i > n THEN 1
    ELSE Contribution(sizes[i], outer[i]) * ProductFrom(sizes, outer, i + 1, n)

RowProduct(sizes, outer, n) == ProductFrom(sizes, outer, 1, n)

\* The nested-loop enumeration of one row: instance n varies fastest.
ExpectedRow(sizes, outer, n) ==
    [j \in 1..RowProduct(sizes, outer, n) |->
        [i \in 1..n |->
            IF sizes[i] = 0 THEN NULL
            ELSE (((j - 1) \div ProductFrom(sizes, outer, i + 1, n))
                     % Contribution(sizes[i], outer[i])) + 1]]

NoRow == [off |-> -1, sizes |-> <<>>, hist |-> <<>>, copies |-> 0]

\* --------------------------------------------------- _copy_output_slots
\* The value insert_many_from reads from the child block at _cur_child_offset.
SrcValue(m) ==
    IF m.cur_child_offset >= 0 /\ m.cur_child_offset < Len(m.child_block)
    THEN m.child_block[m.cur_child_offset + 1]
    ELSE -1

\* Mutant: the pending count is not cleared after the flush.
CopyKeepCount(m) ==
    IF m.current_row_insert_times = 0
    THEN m
    ELSE [m EXCEPT
            !.pass_column = @ \o Repeat(SrcValue(m), m.current_row_insert_times),
            !.row_copies = @ + m.current_row_insert_times]

_copy_output_slots(m) ==
    IF m.current_row_insert_times = 0
    THEN m
    ELSE [m EXCEPT
            !.pass_column = @ \o Repeat(SrcValue(m), m.current_row_insert_times),
            !.current_row_insert_times = 0,
            !.row_copies = @ + m.current_row_insert_times,
            !.calls = Append(@, Call("copy", m.cur_child_offset,
                                     m.current_row_insert_times))]

\* ------------------------------------------------ _find_last_fn_eos_idx
\* Mutant of the loop: the index of the instance that is not eos is returned.
RECURSIVE FindScanOffByOne(_, _, _)
FindScanOffByOne(f, n, i) ==
    IF i < 0 THEN 0
    ELSE IF ~f[i + 1].eos
         THEN (IF i = n - 1 THEN -1 ELSE i)
         ELSE FindScanOffByOne(f, n, i - 1)

RECURSIVE FindScan(_, _, _)
\* The loop of _find_last_fn_eos_idx at index i (0-based).
FindScan(f, n, i) ==
    IF i < 0 THEN 0
    ELSE IF ~f[i + 1].eos
         THEN (IF i = n - 1 THEN -1 ELSE i + 1)
         ELSE FindScan(f, n, i - 1)

\* Mutant: the index of the instance that is not eos, instead of the one after it.
FindLastOffByOne(f, n) == FindScanOffByOne(f, n, n - 1)

_find_last_fn_eos_idx(f, n) == FindScan(f, n, n - 1)

\* ------------------------------------------------ _roll_table_functions
\* Mutant of the loop: one instance is forwarded, the ones before it never.
RollScanOnce(f, i, log) ==
    IF i < 0 THEN [fns |-> f, i |-> -1, calls |-> log]
    ELSE LET g == [f EXCEPT ![i + 1] = forward(@, 1)]
             l == Append(log, Call("forward", i, 1))
         IN [fns |-> g, i |-> IF ~g[i + 1].eos THEN i ELSE -1, calls |-> l]

RECURSIVE RollScan(_, _, _)
\* The forward loop of _roll_table_functions from index i (0-based) down.
RollScan(f, i, log) ==
    IF i < 0 THEN [fns |-> f, i |-> -1, calls |-> log]
    ELSE LET g == [f EXCEPT ![i + 1] = forward(@, 1)]
             l == Append(log, Call("forward", i, 1))
         IN IF ~g[i + 1].eos
            THEN [fns |-> g, i |-> i, calls |-> l]
            ELSE RollScan(g, i - 1, l)

\* Mutant: after the forward loop only the last instance is reset.
RollResetLastOnly(f, n, last_eos_idx) ==
    LET r == RollScan(f, last_eos_idx - 1, <<>>)
    IN IF r.i = -1
       THEN [fns |-> r.fns, ret |-> FALSE, calls |-> r.calls]
       ELSE [fns |-> [j \in 1..n |-> IF j = n THEN reset(r.fns[j])
                                     ELSE r.fns[j]],
             ret |-> TRUE,
             calls |-> Append(r.calls, Call("reset", n - 1, 0))]

\* Mutant: the instances after the forwarded one are not reset.
RollNoReset(f, n, last_eos_idx) ==
    LET r == RollScan(f, last_eos_idx - 1, <<>>)
    IN [fns |-> r.fns, ret |-> r.i # -1, calls |-> r.calls]

\* [fns, ret, calls]: the instances after the roll, and its return value.
_roll_table_functions(f, n, last_eos_idx) ==
    LET r == RollScan(f, last_eos_idx - 1, <<>>)
    IN IF r.i = -1
       THEN [fns |-> r.fns, ret |-> FALSE, calls |-> r.calls]
       ELSE [fns |-> [j \in 1..n |-> IF j - 1 >= r.i + 1 THEN reset(r.fns[j])
                                     ELSE r.fns[j]],
             ret |-> TRUE,
             calls |-> r.calls \o [j \in 1..(n - r.i - 1) |->
                                       Call("reset", r.i + j, 0)]]

\* --------------------------------------------------- _is_inner_and_empty
\* Mutant: an empty outer instance makes the row skipped as well.
IsAnyEmpty(f, outer, n) ==
    \E i \in 1..n : current_empty(f[i])

_is_inner_and_empty(f, outer, n) ==
    \E i \in 1..n : ~outer[i] /\ current_empty(f[i])

\* ------------------------------------------------ process_next_child_row
\* History only: the row that is being left.
LeaveRow(m, c) ==
    IF m.cur_child_offset < 0 THEN m
    ELSE LET sizes == [i \in 1..c.fn_num |-> m.fns[i].cur_size]
         IN [m EXCEPT
               !.last_row = [off |-> m.cur_child_offset, sizes |-> sizes,
                             hist |-> m.row_hist, copies |-> m.row_copies],
               !.rows_complete =
                   IF m.row_hist = ExpectedRow(sizes, c.is_outer, c.fn_num)
                   THEN @ + 1 ELSE @,
               !.rows_skipped = IF m.skip_child_row THEN @ + 1 ELSE @]

\* Mutant: the block counts as drained one row early.
ProcessNextDropLast(m0, c, sizes) ==
    LET m == LeaveRow(m0, c)
        off == m.cur_child_offset + 1
    IN IF off + 1 >= Len(m.child_block)
       THEN [m EXCEPT
               !.child_block = <<>>,
               !.cur_child_offset = -1,
               !.row_hist = <<>>,
               !.row_copies = 0,
               !.calls = @ \o [i \in 1..c.fn_num |-> Call("process_close", i - 1, 0)]]
       ELSE [m EXCEPT
               !.cur_child_offset = off,
               !.fns = [i \in 1..c.fn_num |-> process_row(sizes[i])],
               !.row_hist = <<>>,
               !.row_copies = 0,
               !.calls = @ \o [i \in 1..c.fn_num |-> Call("process_row", i - 1, off)]]

process_next_child_row(m0, c, sizes) ==
    LET m == LeaveRow(m0, c)
        off == m.cur_child_offset + 1
    IN IF off >= Len(m.child_block)
       THEN [m EXCEPT
               !.child_block = <<>>,
               !.cur_child_offset = -1,
               !.row_hist = <<>>,
               !.row_copies = 0,
               !.calls = @ \o [i \in 1..c.fn_num |-> Call("process_close", i - 1, 0)]]
       ELSE [m EXCEPT
               !.cur_child_offset = off,
               !.fns = [i \in 1..c.fn_num |-> process_row(sizes[i])],
               !.row_hist = <<>>,
               !.row_copies = 0,
               !.calls = @ \o [i \in 1..c.fn_num |-> Call("process_row", i - 1, off)]]

\* ---------------------------------------------------- get_expanded_block
\* History only: calls, last_row and ret describe the latest step alone.
Fresh(m) == [m EXCEPT !.calls = <<>>, !.last_row = NoRow, !.ret = FALSE]

\* Mutant: the entry also resets every instance to its first value.
FillEntryRebind(m, c) ==
    [m EXCEPT !.pc = "outer",
              !.fns = [i \in 1..c.fn_num |-> reset(m.fns[i])],
              !.columns = [i \in 1..c.fn_num |-> <<>>],
              !.pass_column = <<>>,
              !.useless_column = <<>>,
              !.origin = <<>>,
              !.skip_child_row = FALSE,
              !.status = "OK",
              !.eos = FALSE,
              !.calls = <<>>,
              !.last_row = NoRow,
              !.ret = FALSE]

\* Entry: the mutable block over the (emptied) output block.
FillEntry(m, c) ==
    [m EXCEPT !.pc = "outer",
              !.columns = [i \in 1..c.fn_num |-> <<>>],
              !.pass_column = <<>>,
              !.useless_column = <<>>,
              !.origin = <<>>,
              !.skip_child_row = FALSE,
              !.status = "OK",
              !.eos = FALSE,
              !.calls = <<>>,
              !.last_row = NoRow,
              !.ret = FALSE]

\* Mutant: the outer while does not poll the cancellation.
OuterStepNoPoll(m0, c) ==
    LET m == Fresh(m0)
    IN IF Len(m.columns[1]) < c.batch_size
       THEN IF Len(m.child_block) = 0
            THEN [m EXCEPT !.pc = "finish"]
            ELSE [m EXCEPT !.pc = "inner", !.skip_child_row = FALSE]
       ELSE [m EXCEPT !.pc = "finish"]

\* Mutant: the outer loop is left once the child is exhausted, rows or not.
OuterStepBreakOnEos(m0, c) ==
    LET m == Fresh(m0)
    IN IF Len(m.columns[1]) < c.batch_size
       THEN IF c.cancelled
            THEN [m EXCEPT !.pc = "idle", !.status = "CANCELLED", !.ret = TRUE]
            ELSE IF Len(m.child_block) = 0 \/ c.child_eos
                 THEN [m EXCEPT !.pc = "finish"]
                 ELSE [m EXCEPT !.pc = "inner", !.skip_child_row = FALSE]
       ELSE [m EXCEPT !.pc = "finish"]

\* The outer while: condition, cancellation poll, empty child block.
OuterStep(m0, c) ==
    LET m == Fresh(m0)
    IN IF Len(m.columns[1]) < c.batch_size
       THEN IF c.cancelled
            THEN [m EXCEPT !.pc = "idle", !.status = "CANCELLED", !.ret = TRUE]
            ELSE IF Len(m.child_block) = 0
                 THEN [m EXCEPT !.pc = "finish"]
                 ELSE [m EXCEPT !.pc = "inner", !.skip_child_row = FALSE]
       ELSE [m EXCEPT !.pc = "finish"]

\* Mutant: the skip flag is set, the combination is emitted all the same.
CheckStepEmitAnyway(m, c) ==
    LET skip == _is_inner_and_empty(m.fns, c.is_outer, c.fn_num)
    IN [m EXCEPT !.skip_child_row = skip, !.pc = "emit"]

\* Mutant: a skipped row ends the loops instead of continuing them.
CheckStepBreak(m, c) ==
    LET skip == _is_inner_and_empty(m.fns, c.is_outer, c.fn_num)
    IN [m EXCEPT !.skip_child_row = skip,
                 !.pc = IF skip THEN "finish" ELSE "emit"]

\* skip_child_row = _is_inner_and_empty(): back to the loop condition, or emit.
CheckStep(m, c) ==
    LET skip == _is_inner_and_empty(m.fns, c.is_outer, c.fn_num)
    IN [m EXCEPT !.skip_child_row = skip,
                 !.pc = IF skip THEN "inner" ELSE "emit"]

\* Mutant: the row is left without the pending count being flushed.
InnerStepNoFlush(m0, c, sizes) ==
    LET m == Fresh(m0)
        idx == _find_last_fn_eos_idx(m.fns, c.fn_num)
    IN IF ~(Len(m.columns[1]) < c.batch_size)
       THEN [m EXCEPT !.pc = "finish"]
       ELSE IF idx = 0 \/ m.skip_child_row
            THEN LET n == process_next_child_row(m, c, sizes)
                 IN IF n.cur_child_offset = -1
                    THEN [n EXCEPT !.pc = "outer"]
                    ELSE CheckStep(n, c)
            ELSE IF idx < c.fn_num /\ idx # -1
                 THEN LET r == _roll_table_functions(m.fns, c.fn_num, idx)
                          n == [m EXCEPT !.fns = r.fns, !.calls = r.calls]
                      IN IF r.ret THEN CheckStep(n, c)
                         ELSE [n EXCEPT !.pc = "inner"]
                 ELSE CheckStep(m, c)

\* Mutant: the pending count is flushed after the next row is bound.
InnerStepLateFlush(m0, c, sizes) ==
    LET m == Fresh(m0)
        idx == _find_last_fn_eos_idx(m.fns, c.fn_num)
    IN IF ~(Len(m.columns[1]) < c.batch_size)
       THEN [m EXCEPT !.pc = "finish"]
       ELSE IF idx = 0 \/ m.skip_child_row
            THEN LET n == _copy_output_slots(process_next_child_row(m, c, sizes))
                 IN IF n.cur_child_offset = -1
                    THEN [n EXCEPT !.pc = "outer"]
                    ELSE CheckStep(n, c)
            ELSE IF idx < c.fn_num /\ idx # -1
                 THEN LET r == _roll_table_functions(m.fns, c.fn_num, idx)
                          n == [m EXCEPT !.fns = r.fns, !.calls = r.calls]
                      IN IF r.ret THEN CheckStep(n, c)
                         ELSE [n EXCEPT !.pc = "inner"]
                 ELSE CheckStep(m, c)

\* The inner while up to the skip check: condition, pivot, next row or roll.
InnerStep(m0, c, sizes) ==
    LET m == Fresh(m0)
        idx == _find_last_fn_eos_idx(m.fns, c.fn_num)
    IN IF ~(Len(m.columns[1]) < c.batch_size)
       THEN \* the same condition ends the outer while as well
            [m EXCEPT !.pc = "finish"]
       ELSE IF idx = 0 \/ m.skip_child_row
            THEN LET n == process_next_child_row(_copy_output_slots(m), c, sizes)
                 IN IF n.cur_child_offset = -1
                    THEN [n EXCEPT !.pc = "outer"]
                    ELSE CheckStep(n, c)
            ELSE IF idx < c.fn_num /\ idx # -1
                 THEN LET r == _roll_table_functions(m.fns, c.fn_num, idx)
                          n == [m EXCEPT !.fns = r.fns, !.calls = r.calls]
                      IN IF r.ret THEN CheckStep(n, c)
                         ELSE [n EXCEPT !.pc = "inner"]
                 ELSE CheckStep(m, c)

\* Mutant: the pending count grows by one per emit, not by repeat_times.
EmitCountOne(m, c) ==
    LET n == c.fn_num
        mc == c.batch_size - Len(m.columns[1])
        vals == get_value(m.fns[n], mc)
        repeat_times == Len(vals)
        same == [i \in 1..n |->
                    IF i = n THEN vals
                    ELSE get_same_many_values(m.fns[i], repeat_times)]
    IN [m EXCEPT
          !.fns[n] = forward(@, repeat_times),
          !.columns = [i \in 1..n |-> m.columns[i] \o same[i]],
          !.current_row_insert_times = @ + 1,
          !.origin = @ \o Repeat(m.cur_child_offset, repeat_times),
          !.row_hist = @ \o [j \in 1..repeat_times |-> [i \in 1..n |-> same[i][j]]],
          !.calls = @ \o <<CallAt("get_value", n - 1, mc, Len(m.columns[1]))>>
                    \o [i \in 1..(n - 1) |->
                           Call("get_same_many_values", i - 1, repeat_times)],
          !.pc = "inner"]

\* Mutant: max_count is the whole batch size, not what is left of it.
EmitFullBatch(m, c) ==
    LET n == c.fn_num
        mc == c.batch_size
        vals == get_value(m.fns[n], mc)
        repeat_times == Len(vals)
        same == [i \in 1..n |->
                    IF i = n THEN vals
                    ELSE get_same_many_values(m.fns[i], repeat_times)]
    IN [m EXCEPT
          !.fns[n] = forward(@, repeat_times),
          !.columns = [i \in 1..n |-> m.columns[i] \o same[i]],
          !.current_row_insert_times = @ + repeat_times,
          !.origin = @ \o Repeat(m.cur_child_offset, repeat_times),
          !.row_hist = @ \o [j \in 1..repeat_times |-> [i \in 1..n |-> same[i][j]]],
          !.calls = @ \o <<CallAt("get_value", n - 1, mc, Len(m.columns[1]))>>
                    \o [i \in 1..(n - 1) |->
                           Call("get_same_many_values", i - 1, repeat_times)],
          !.pc = "inner"]

\* get_value on the last instance, get_same_many_values on the others.
EmitStep(m, c) ==
    LET n == c.fn_num
        mc == c.batch_size - Len(m.columns[1])
        vals == get_value(m.fns[n], mc)
        repeat_times == Len(vals)
        same == [i \in 1..n |->
                    IF i = n THEN vals
                    ELSE get_same_many_values(m.fns[i], repeat_times)]
    IN [m EXCEPT
          !.fns[n] = forward(@, repeat_times),
          !.columns = [i \in 1..n |-> m.columns[i] \o same[i]],
          !.current_row_insert_times = @ + repeat_times,
          !.origin = @ \o Repeat(m.cur_child_offset, repeat_times),
          !.row_hist = @ \o [j \in 1..repeat_times |-> [i \in 1..n |-> same[i][j]]],
          !.calls = @ \o <<CallAt("get_value", n - 1, mc, Len(m.columns[1]))>>
                    \o [i \in 1..(n - 1) |->
                           Call("get_same_many_values", i - 1, repeat_times)],
          !.pc = "inner"]

\* Mutant: the useless columns are padded before the final flush is counted,
\* up to the needed column's size.
FinishPadEarly(m0, c, filter_ok) ==
    LET row_size == Len(m0.pass_column)
        m == _copy_output_slots(m0)
        padded == [m EXCEPT !.useless_column =
                       @ \o Repeat(NULL, row_size - Len(m.useless_column))]
    IN IF filter_ok
       THEN [padded EXCEPT !.pc = "idle", !.status = "OK", !.ret = TRUE,
                           !.eos = c.child_eos /\ m.cur_child_offset = -1]
       ELSE [padded EXCEPT !.pc = "idle", !.status = "ERROR", !.ret = TRUE]

\* Mutant: *eos is _child_eos alone.
FinishEosChildOnly(m0, c, filter_ok) ==
    LET m == _copy_output_slots(m0)
        row_size == Len(m.columns[1])
        padded == [m EXCEPT !.useless_column =
                       @ \o Repeat(NULL, row_size - Len(m.useless_column))]
    IN IF filter_ok
       THEN [padded EXCEPT !.pc = "idle", !.status = "OK", !.ret = TRUE,
                           !.eos = c.child_eos]
       ELSE [padded EXCEPT !.pc = "idle", !.status = "ERROR", !.ret = TRUE]

\* Mutant: end of stream is reported as soon as the last instance is exhausted.
FinishEosRowDone(m0, c, filter_ok) ==
    LET m == _copy_output_slots(m0)
        row_size == Len(m.columns[1])
        padded == [m EXCEPT !.useless_column =
                       @ \o Repeat(NULL, row_size - Len(m.useless_column))]
    IN IF filter_ok
       THEN [padded EXCEPT !.pc = "idle", !.status = "OK", !.ret = TRUE,
                           !.eos = c.child_eos /\
                                   (\/ m.cur_child_offset = -1
                                    \/ m.fns[c.fn_num].eos)]
       ELSE [padded EXCEPT !.pc = "idle", !.status = "ERROR", !.ret = TRUE]

\* After the loops: flush, pad, filter, *eos.
FinishStep(m0, c, filter_ok) ==
    LET m == _copy_output_slots(m0)
        row_size == Len(m.columns[1])
        padded == [m EXCEPT !.useless_column =
                       @ \o Repeat(NULL, row_size - Len(m.useless_column))]
    IN IF filter_ok
       THEN [padded EXCEPT !.pc = "idle", !.status = "OK", !.ret = TRUE,
                           !.eos = c.child_eos /\ m.cur_child_offset = -1]
       ELSE [padded EXCEPT !.pc = "idle", !.status = "ERROR", !.ret = TRUE]

\* The inner step at m is about to bind the next row of the child block.
WillBind(m, c) ==
    /\ m.pc = "inner"
    /\ Len(m.columns[1]) < c.batch_size
    /\ (_find_last_fn_eos_idx(m.fns, c.fn_num) = 0 \/ m.skip_child_row)
    /\ m.cur_child_offset + 1 < Len(m.child_block)

\* One iteration of the loop at m.pc, outer or inner, the inner one through
\* its get_value; `sizes` are the numbers of values the instances find in the
\* row the iteration binds, if it binds one.  A full batch ends both loops.
LoopStep(m, c, sizes) ==
    LET a == IF m.pc = "outer" THEN OuterStep(m, c) ELSE InnerStep(m, c, sizes)
        b == IF a.pc = "emit" THEN EmitStep(a, c) ELSE a
    IN IF b.pc \in {"inner", "outer"} /\ ~(Len(b.columns[1]) < c.batch_size)
       THEN [b EXCEPT !.pc = "finish"]
       ELSE b

\* One iteration, and the end of the call if the loops are left.
Step(m, c, sizes) ==
    LET d == LoopStep(m, c, sizes)
    IN IF d.pc = "finish" THEN FinishStep(d, c, TRUE) ELSE d

RECURSIVE RunSteps(_, _, _)
\* The steps of a call to its return; fut[k] are the sizes of the k-th row
\* the call binds.
RunSteps(m, c, fut) ==
    IF m.pc = "idle" THEN m
    ELSE IF WillBind(m, c)
         THEN RunSteps(Step(m, c, Head(fut)), c, Tail(fut))
         ELSE RunSteps(Step(m, c, <<>>), c, fut)

RECURSIVE Outcomes(_, _, _)
\* The returns a call at m can reach, each with the sizes of the rows it bound.
Outcomes(m, c, fut) ==
    IF m.pc = "idle" THEN {[m |-> m, fut |-> fut]}
    ELSE IF WillBind(m, c)
         THEN UNION {Outcomes(Step(m, c, s), c, Append(fut, s)) :
                        s \in [1..c.fn_num -> 0..c.max_vals]}
         ELSE Outcomes(Step(m, c, <<>>), c, fut)

\* The returns of a whole call with batch size `cap`.
FillOutcomes(m, c, cap) ==
    Outcomes(FillEntry(m, c), [c EXCEPT !.batch_size = cap], <<>>)

\* A whole call of get_expanded_block with batch size `cap`, as a function.
RunFill(m, c, cap, fut) ==
    RunSteps(FillEntry(m, c), [c EXCEPT !.batch_size = cap], fut)

\* ------------------------------------------------------------- the driver
\* The numbers of values the N instances can find in one row.
RowSet(n) == [1..n -> 0..max_vals]

\* The pass-through value the child puts in the row at `off`.
PassValue(off) == 10 + off

need_more_input_data == Len(child_block) = 0 /\ ~child_eos

\* No helper has been called on its own.
NoProbe == [op |-> "none"]

\* The local state after open(), before the first block.
Start ==
    /\ fns = [i \in 1..fn_num |-> process_row(0)]
    /\ child_block = <<>>
    /\ cur_child_offset = -1
    /\ current_row_insert_times = 0
    /\ child_eos = FALSE
    /\ pc = "idle"
    /\ columns = [i \in 1..fn_num |-> <<>>]
    /\ pass_column = <<>>
    /\ useless_column = <<>>
    /\ skip_child_row = FALSE
    /\ status = "OK"
    /\ eos = FALSE
    /\ cancelled = FALSE
    /\ origin = <<>>
    /\ row_hist = <<>>
    /\ row_copies = 0
    /\ last_row = NoRow
    /\ rows_complete = 0
    /\ calls = <<>>
    /\ ret = FALSE
    /\ block_rows = 0
    /\ rows_skipped = 0
    /\ eos_returns = 0
    /\ probe = NoProbe

Init ==
    /\ fn_num \in 1..MaxFn
    /\ is_outer \in [1..fn_num -> BOOLEAN]
    /\ batch_size \in 1..MaxBatch
    /\ max_vals = MaxVals
    /\ Start

\* The end-to-end scenario: two instances, larger value sets and batches.
InitE2E ==
    /\ fn_num = 2
    /\ is_outer \in [1..fn_num -> BOOLEAN]
    /\ batch_size \in 1..E2EBatch
    /\ max_vals = E2EVals
    /\ Start

UnchangedCfg == UNCHANGED <<fn_num, is_outer, batch_size, max_vals, probe>>

\* get_block is called with the caller's emptied output block.
Cleared(m) ==
    [Fresh(m) EXCEPT !.columns = [i \in 1..fn_num |-> <<>>],
                     !.pass_column = <<>>,
                     !.useless_column = <<>>,
                     !.origin = <<>>,
                     !.eos = FALSE]

\* The child returns a block without rows, and maybe its end: nothing is pushed.
GetEmptyBlock ==
    /\ pc = "idle" /\ status = "OK" /\ ~cancelled
    /\ need_more_input_data
    /\ \E e \in BOOLEAN : child_eos' = e
    /\ Install(Cleared(Mach))
    /\ UNCHANGED <<cancelled, eos_returns>>
    /\ UnchangedCfg

\* The child returns a block with rows (and maybe its end).
GetBlock ==
    /\ pc = "idle" /\ status = "OK" /\ ~cancelled
    /\ need_more_input_data
    /\ \E rows \in 1..MaxRows, e \in BOOLEAN :
          /\ child_eos' = e
          /\ Install([Cleared(Mach) EXCEPT
                         !.child_block = [k \in 1..rows |-> PassValue(k - 1)],
                         !.rows_complete = 0, !.block_rows = rows,
                         !.rows_skipped = 0, !.pc = "push"])
    /\ UNCHANGED <<cancelled, eos_returns>>
    /\ UnchangedCfg

\* push binds the first row of the block, in which the instances find `sizes`
\* values.
Push ==
    /\ pc = "push"
    /\ \E sizes \in RowSet(fn_num) :
          Install([process_next_child_row(Fresh(Mach), Cfg, sizes) EXCEPT
                      !.pc = "idle"])
    /\ UNCHANGED <<child_eos, cancelled, eos_returns>>
    /\ UnchangedCfg

\* The state is cancelled from outside.  The flag is read by the poll at the
\* top of the outer loop alone, so a cancellation arriving inside the inner
\* loop is the one that arrives right before the next poll.
Cancel ==
    /\ ~cancelled /\ status = "OK"
    /\ pc \in {"idle", "outer"}
    /\ cancelled' = TRUE
    /\ UNCHANGED <<fns, child_block, cur_child_offset, current_row_insert_times,
                   child_eos, pc, columns, pass_column, useless_column,
                   skip_child_row, status, eos, origin, row_hist,
                   row_copies, last_row, rows_complete, calls, ret, block_rows,
                   rows_skipped, eos_returns>>
    /\ UnchangedCfg

UnchangedEnv == UNCHANGED <<child_eos, cancelled>>

\* The loops advance from m by one iteration; the call ends (the filter
\* succeeding or failing) if they are left.
Advance(m, sizes) ==
    \E d \in {LoopStep(m, Cfg, sizes)} :
       \E filter_ok \in (IF d.pc = "finish" THEN BOOLEAN ELSE {TRUE}) :
          \E r \in {IF d.pc = "finish" THEN FinishStep(d, Cfg, filter_ok) ELSE d} :
             /\ Install(r)
             /\ eos_returns' = IF r.ret /\ r.status = "OK" /\ r.eos
                               THEN Min(eos_returns + 1, 2) ELSE eos_returns

\* pull: get_expanded_block is entered and makes its first outer iteration.
Fill ==
    /\ pc = "idle" /\ status = "OK"
    /\ ~need_more_input_data
    /\ Advance(FillEntry(Mach, Cfg), <<>>)
    /\ UnchangedEnv /\ UnchangedCfg

OuterLoop ==
    /\ pc = "outer"
    /\ Advance(Mach, <<>>)
    /\ UnchangedEnv /\ UnchangedCfg

InnerLoop ==
    /\ pc = "inner"
    /\ IF WillBind(Mach, Cfg)
       THEN \E sizes \in RowSet(fn_num) : Advance(Mach, sizes)
       ELSE Advance(Mach, <<>>)
    /\ UnchangedEnv /\ UnchangedCfg

Next ==
    \/ GetEmptyBlock
    \/ GetBlock
    \/ Push
    \/ Cancel
    \/ Fill
    \/ OuterLoop
    \/ InnerLoop

Spec == Init /\ [][Next]_vars

\* ------------------------------------------- the helpers on their own
\* The states an instance can be in: without values, or at an offset of its
\* values, eos once the offset has reached their number.
FnStates(most) ==
    {[cur_size |-> 0, cur_offset |-> 0, eos |-> e] : e \in BOOLEAN}
    \cup UNION {{[cur_size |-> sz, cur_offset |-> o, eos |-> (o = sz)] :
                    o \in 0..sz} : sz \in 1..most}

\* Any instances, no block, no call in progress.
InitProbe ==
    /\ fn_num \in 1..ProbeFn
    /\ is_outer = [i \in 1..fn_num |-> FALSE]
    /\ batch_size = 1
    /\ max_vals = MaxVals
    /\ fns \in [1..fn_num -> FnStates(max_vals)]
    /\ child_block = <<>>
    /\ cur_child_offset = -1
    /\ current_row_insert_times = 0
    /\ child_eos = FALSE
    /\ pc = "probe"
    /\ columns = [i \in 1..fn_num |-> <<>>]
    /\ pass_column = <<>>
    /\ useless_column = <<>>
    /\ skip_child_row = FALSE
    /\ status = "OK"
    /\ eos = FALSE
    /\ cancelled = FALSE
    /\ origin = <<>>
    /\ row_hist = <<>>
    /\ row_copies = 0
    /\ last_row = NoRow
    /\ rows_complete = 0
    /\ calls = <<>>
    /\ ret = FALSE
    /\ block_rows = 0
    /\ rows_skipped = 0
    /\ eos_returns = 0
    /\ probe = NoProbe

UnchangedProbe ==
    UNCHANGED <<fn_num, is_outer, batch_size, max_vals, child_block,
                cur_child_offset, current_row_insert_times, child_eos, columns,
                pass_column, useless_column, skip_child_row, status, eos,
                cancelled, origin, row_hist, row_copies, last_row,
                rows_complete, ret, block_rows, rows_skipped, eos_returns>>

\* _find_last_fn_eos_idx is called: a const member, it returns an index.
FindCall ==
    /\ pc = "probe"
    /\ pc' = "done"
    /\ probe' = [op |-> "find", fns |-> fns,
                 result |-> _find_last_fn_eos_idx(fns, fn_num)]
    /\ UNCHANGED <<fns, calls>>
    /\ UnchangedProbe

\* _roll_table_functions(k) is called with any k, 0 < k < N.
RollCall ==
    /\ pc = "probe"
    /\ \E k \in 1..(fn_num - 1) :
          \E r \in {_roll_table_functions(fns, fn_num, k)} :
             /\ fns' = r.fns
             /\ calls' = r.calls
             /\ probe' = [op |-> "roll", fns |-> fns, k |-> k, result |-> r.ret]
    /\ pc' = "done"
    /\ UnchangedProbe

NextProbe == FindCall \/ RollCall

SpecProbe == InitProbe /\ [][NextProbe]_vars

\* =================================================================== claims
IsPrefix(a, b) == Len(a) <= Len(b) /\ \A j \in 1..Len(a) : a[j] = b[j]

\* The numbers of values the instances hold for the bound row.
CurSizes == [i \in 1..fn_num |-> fns[i].cur_size]

\* The j-th row of the table-function output columns.
RowAt(j) == [i \in 1..fn_num |-> columns[i][j]]

InnerEmpty(sizes) == \E i \in 1..fn_num : ~is_outer[i] /\ sizes[i] = 0

OuterEmpty(sizes) == {i \in 1..fn_num : is_outer[i] /\ sizes[i] = 0}

RECURSIVE NonEmptyProduct(_, _)
\* Product of the sizes of the instances 1..i that have values.
NonEmptyProduct(sizes, i) ==
    IF i = 0 THEN 1
    ELSE (IF sizes[i] > 0 THEN sizes[i] ELSE 1) * NonEmptyProduct(sizes, i - 1)

\* C1: the rows appended for an input row, over all the calls it took, number
\* the product of the contributions of the instances (the size, or 1 for an
\* empty outer instance, or 0 for an empty non-outer one); none is appended
\* when a non-outer instance is empty, and a bound row never has more.
C1_RowCount ==
    /\ last_row.off >= 0 =>
          /\ Len(last_row.hist) = RowProduct(last_row.sizes, is_outer, fn_num)
          /\ InnerEmpty(last_row.sizes) => Len(last_row.hist) = 0
    /\ cur_child_offset >= 0 =>
          Len(row_hist) <= RowProduct(CurSizes, is_outer, fn_num)

\* A row of 2 x 2 values has been left after calls of batch size 1.
C1_Witness ==
    /\ last_row.off >= 0 /\ batch_size = 1
    /\ Len(last_row.hist) = 4

\* C3: the rows come out in nested-loop order: input rows by increasing
\* offset, and within a row every combination once, the last instance
\* varying fastest.
C3_Order ==
    /\ cur_child_offset >= 0 =>
          IsPrefix(row_hist, ExpectedRow(CurSizes, is_outer, fn_num))
    /\ last_row.off >= 0 =>
          last_row.hist = ExpectedRow(last_row.sizes, is_outer, fn_num)
    /\ \A j \in 1..(Len(origin) - 1) : origin[j] <= origin[j + 1]
    /\ (last_row.off >= 0 /\ cur_child_offset >= 0) =>
          cur_child_offset = last_row.off + 1
    /\ cur_child_offset >= 0 =>
          LET mine == {j \in 1..Len(origin) : origin[j] = cur_child_offset}
              k == Cardinality(mine)
          IN /\ k <= Len(row_hist)
             /\ \A t \in 1..k :
                   /\ origin[Len(origin) - k + t] = cur_child_offset
                   /\ RowAt(Len(origin) - k + t) = row_hist[Len(row_hist) - k + t]

\* A row of 2 x 2 values has been left, its rows spread over several calls,
\* and the next row is bound.
C3_Witness ==
    /\ last_row.off >= 0 /\ cur_child_offset >= 1
    /\ last_row.hist = <<<<1, 1>>, <<1, 2>>, <<2, 1>>, <<2, 2>>>>
    /\ Len(origin) < 4

\* C5: a successful call reports end of stream exactly when the child is
\* exhausted and no row is bound; then every row of every block received has
\* been expanded in full and nothing is pending, and every later call
\* returns no row and end of stream again.
C5_EndOfStream ==
    /\ (ret /\ status = "OK") => (eos <=> (child_eos /\ cur_child_offset = -1))
    /\ (ret /\ status = "OK" /\ eos) =>
          /\ child_block = <<>>
          /\ rows_complete = block_rows
          /\ current_row_insert_times = 0
          /\ Len(pass_column) = Len(columns[1])
    /\ child_block = <<>> => rows_complete = block_rows
    /\ (ret /\ status = "OK" /\ eos_returns >= 1) => eos
    /\ (ret /\ status = "OK" /\ eos_returns = 2) => Len(columns[1]) = 0

\* A call after the one that reported end of stream, the last block having
\* had two rows.
C5_Witness ==
    /\ ret /\ status = "OK" /\ eos /\ eos_returns = 2
    /\ block_rows = 2 /\ rows_complete = 2

\* C6: a row's pass-through value is copied as many times as rows were
\* appended for it, and every output row carries the value of the input row
\* its combination came from.
C6_Replication ==
    /\ last_row.off >= 0 => last_row.copies = Len(last_row.hist)
    /\ Len(pass_column) <= Len(origin)
    /\ \A j \in 1..Len(pass_column) : pass_column[j] = PassValue(origin[j])
    /\ ret => (Len(pass_column) = Len(columns[1]) /\ row_copies = Len(row_hist))

\* A returned batch holds rows of two input rows.
C6_Witness ==
    /\ ret /\ status = "OK"
    /\ Len(pass_column) >= 2
    /\ pass_column[1] # pass_column[Len(pass_column)]

\* C7: the output columns never hold more than batch_size rows, and get_value
\* is called on the last instance with max_count = batch_size - rows held,
\* between 1 and batch_size.
C7_Capacity ==
    /\ \A i \in 1..fn_num : Len(columns[i]) <= batch_size
    /\ \A k \in 1..Len(calls) :
          calls[k].op = "get_value" =>
             /\ calls[k].i = fn_num - 1
             /\ calls[k].n = batch_size - calls[k].at
             /\ 1 <= calls[k].n /\ calls[k].n <= batch_size

\* get_value was called with a partly filled batch, and filled it.
C7_Witness ==
    /\ \E k \in 1..Len(calls) : calls[k].op = "get_value" /\ calls[k].at > 0
    /\ Len(columns[1]) = batch_size

\* C8: in a row where an outer instance is empty and no non-outer one is,
\* every appended row has NULL in that instance's column and the instance
\* counts for one value, be it the last instance or not.
C8_OuterEmpty ==
    /\ cur_child_offset >= 0 =>
          \A i \in OuterEmpty(CurSizes) :
             \A j \in 1..Len(row_hist) : row_hist[j][i] = NULL
    /\ (last_row.off >= 0 /\ OuterEmpty(last_row.sizes) # {}
          /\ ~InnerEmpty(last_row.sizes)) =>
          /\ Len(last_row.hist) = NonEmptyProduct(last_row.sizes, fn_num)
          /\ last_row.copies = NonEmptyProduct(last_row.sizes, fn_num)
          /\ \A i \in OuterEmpty(last_row.sizes) :
                \A j \in 1..Len(last_row.hist) : last_row.hist[j][i] = NULL
    /\ (last_row.off >= 0 /\ fn_num = 2 /\ is_outer = <<FALSE, TRUE>>
          /\ last_row.sizes = <<2, 0>>) =>
          (last_row.hist = <<<<1, NULL>>, <<2, NULL>>>> /\ last_row.copies = 2)

\* The row of the example (A non-outer with two values, B outer and empty)
\* has been left.
C8_Witness ==
    /\ last_row.off >= 0 /\ fn_num = 2
    /\ is_outer = <<FALSE, TRUE>> /\ last_row.sizes = <<2, 0>>
    /\ Len(last_row.hist) = 2

SpecE2E == InitE2E /\ [][Next]_vars

\* What a call leaves behind: the instances, the cursor, the pending count.
View(m) ==
    [fns |-> m.fns, cur |-> m.cur_child_offset,
     times |-> m.current_row_insert_times, block |-> m.child_block]

\* The rows of the batch a call returns, before the filter.
Batch(m) ==
    [j \in 1..Len(m.columns[1]) |->
        [vals |-> [i \in 1..fn_num |-> m.columns[i][j]],
         pass |-> IF j <= Len(m.pass_column) THEN m.pass_column[j] ELSE -1]]

\* C2: from any state between calls, a call of capacity c1 followed by a
\* call of capacity c2 returns, concatenated, the rows of one call of
\* capacity c1 + c2, binds the same rows, and leaves the instances,
\* _cur_child_offset and _current_row_insert_times the same.
C2_Resumable ==
    (pc = "idle" /\ status = "OK" /\ ~cancelled) =>
       \A c1 \in 0..batch_size :
          LET c2 == batch_size - c1
              one == {[fut |-> o.fut, rows |-> Batch(o.m), view |-> View(o.m)] :
                         o \in FillOutcomes(Mach, Cfg, batch_size)}
              two == UNION {{[fut |-> o1.fut \o o2.fut,
                              rows |-> Batch(o1.m) \o Batch(o2.m),
                              view |-> View(o2.m)] :
                                o2 \in FillOutcomes(o1.m, Cfg, c2)} :
                            o1 \in FillOutcomes(Mach, Cfg, c1)}
          IN one = two

\* Between two calls, in the middle of a row, with a further row in the block.
C2_Witness ==
    /\ pc = "idle" /\ ret /\ status = "OK" /\ ~cancelled
    /\ batch_size = 2
    /\ cur_child_offset >= 0 /\ cur_child_offset + 1 < Len(child_block)
    /\ Len(row_hist) > 0
    /\ Len(row_hist) < RowProduct(CurSizes, is_outer, fn_num)

\* The end-to-end scenario: A with 2 values, B with 3, one row, batches of 3,
\* the child exhausted.
Scenario ==
    /\ fn_num = 2 /\ batch_size = 3 /\ block_rows = 1 /\ child_eos
    /\ CurSizes = <<2, 3>>
    /\ ret /\ status = "OK"

\* C4 as stated: the second call of the scenario returns the last three rows
\* with end of stream, and in general the call that appends the last
\* combination of the last row reports end of stream.
C4_Original ==
    /\ (Scenario /\ columns = <<<<1, 1, 1>>, <<1, 2, 3>>>>) => ~eos
    /\ (Scenario /\ columns = <<<<2, 2, 2>>, <<1, 2, 3>>>>) => eos
    /\ (ret /\ status = "OK" /\ child_eos /\ Len(columns[1]) > 0
          /\ \/ cur_child_offset = -1
             \/ /\ cur_child_offset = block_rows - 1
                /\ Len(row_hist) = RowProduct(CurSizes, is_outer, fn_num)) => eos

\* C4 amended: the first call returns (1,x)(1,y)(1,z) and the second
\* (2,x)(2,y)(2,z), both without end of stream, the row being still bound
\* when the batch is full; the third call returns no row and end of stream.
\* In general, the child being exhausted, a call reports end of stream
\* exactly when it returns with no row bound, which it does whenever it
\* returns with room left in the batch.
C4_EndToEnd ==
    /\ (Scenario /\ Len(row_hist) = 3) =>
          (columns = <<<<1, 1, 1>>, <<1, 2, 3>>>> /\ ~eos /\ cur_child_offset = 0)
    /\ (Scenario /\ Len(row_hist) = 6) =>
          (columns = <<<<2, 2, 2>>, <<1, 2, 3>>>> /\ ~eos /\ cur_child_offset = 0)
    /\ (Scenario /\ cur_child_offset = -1) =>
          (columns = <<<<>>, <<>>>> /\ eos /\ rows_complete = 1)
    /\ (ret /\ status = "OK" /\ child_eos) => (eos <=> cur_child_offset = -1)
    /\ (ret /\ status = "OK" /\ child_eos /\ Len(columns[1]) < batch_size) => eos

\* The third call of the scenario has returned.
C4_Witness ==
    /\ Scenario /\ cur_child_offset = -1
    /\ eos /\ eos_returns = 1 /\ rows_complete = 1

\* C9: when the bound row and every row after it in the block has an empty
\* non-outer instance, one call binds each of them in turn, releases the
\* block, appends nothing and reports end of stream if the child is exhausted.
C9_SkipAll ==
    /\ (pc = "idle" /\ status = "OK" /\ ~cancelled /\ cur_child_offset >= 0
          /\ InnerEmpty(CurSizes)) =>
          LET left == Len(child_block) - cur_child_offset - 1
          IN \A fut \in [1..left -> {s \in RowSet(fn_num) : InnerEmpty(s)}] :
                LET r == RunFill(Mach, Cfg, batch_size, fut)
                IN /\ r.status = "OK"
                   /\ r.cur_child_offset = -1
                   /\ r.child_block = <<>>
                   /\ r.rows_skipped = rows_skipped + left + 1
                   /\ \A i \in 1..fn_num : r.columns[i] = <<>>
                   /\ r.pass_column = <<>>
                   /\ r.eos = child_eos
    /\ (ret /\ status = "OK" /\ block_rows >= 1 /\ rows_skipped = block_rows) =>
          /\ child_block = <<>> /\ cur_child_offset = -1
          /\ Len(columns[1]) = 0
          /\ eos = child_eos

\* The first call on a block of two rows, both skipped, has returned.
C9_Witness ==
    /\ ret /\ status = "OK" /\ eos /\ eos_returns = 1
    /\ block_rows = 2 /\ rows_skipped = 2
    /\ Len(columns[1]) = 0

\* C10: a call entered while the state is cancelled returns the cancellation
\* and touches nothing: no instance, not the cursor, not the pending count,
\* not the child block, and no row is appended.
C10_Cancelled ==
    [][(pc = "idle" /\ cancelled /\ status = "OK") =>
          /\ pc' = "idle" /\ ret' /\ status' = "CANCELLED"
          /\ fns' = fns
          /\ cur_child_offset' = cur_child_offset
          /\ current_row_insert_times' = current_row_insert_times
          /\ child_block' = child_block
          /\ calls' = <<>>
          /\ \A i \in 1..fn_num : columns'[i] = <<>>
          /\ pass_column' = <<>>]_vars

\* A cancelled call has returned, a row being bound in the middle of its
\* expansion.
C10_Witness ==
    /\ ret /\ status = "CANCELLED"
    /\ cur_child_offset >= 0 /\ Len(row_hist) > 0
    /\ Len(columns[1]) = 0

\* C11: for every vector of eos flags, _find_last_fn_eos_idx returns -1 if the
\* last instance is not eos, 0 if every instance is eos, and otherwise the k,
\* 0 < k < N, with the instances k..N-1 eos and the instance k-1 not eos; it
\* changes no instance.
C11_FindLast ==
    probe.op = "find" =>
       LET f == probe.fns
           r == probe.result
       IN /\ ~f[fn_num].eos => r = -1
          /\ (\A i \in 1..fn_num : f[i].eos) => r = 0
          /\ (f[fn_num].eos /\ \E i \in 1..fn_num : ~f[i].eos) =>
                /\ 0 < r /\ r < fn_num
                /\ \A j \in (r + 1)..fn_num : f[j].eos
                /\ ~f[r].eos
          /\ fns = f

\* Three instances, the first eos, the second not, the last eos: the pivot
\* is 2.
C11_Witness ==
    /\ probe.op = "find" /\ fn_num = 3
    /\ probe.fns[1].eos /\ ~probe.fns[2].eos /\ probe.fns[3].eos
    /\ probe.result = 2

\* The calls of `op` in the log, as the instances they were made on.
CallsOf(log, op) ==
    LET at == {x \in 1..Len(log) : log[x].op = op}
        RECURSIVE pick(_, _)
        pick(x, acc) == IF x > Len(log) THEN acc
                        ELSE pick(x + 1, IF x \in at THEN Append(acc, log[x].i)
                                         ELSE acc)
    IN pick(1, <<>>)

\* C12: _roll_table_functions(k), 0 < k < N, forwards the instances k-1,
\* k-2, ... in that order and stops at the first instance i that is not eos
\* after its forward; it then resets every instance after i, leaves the ones
\* before i untouched and returns true.  It returns false, resetting nothing,
\* exactly when every instance 0..k-1 is eos after its forward; all N
\* instances are then eos, those from k on having been eos at the call.
C12_Roll ==
    probe.op = "roll" =>
       LET f == probe.fns
           k == probe.k
           fw == [j \in 0..(k - 1) |-> forward(f[j + 1], 1)]
           alive == {j \in 0..(k - 1) : ~fw[j].eos}
           i == IF alive = {} THEN -1
                ELSE CHOOSE j \in alive : \A x \in alive : x <= j
           forwards == CallsOf(calls, "forward")
           resets == CallsOf(calls, "reset")
       IN /\ probe.result <=> alive # {}
          /\ forwards = [x \in 1..(k - i - IF i = -1 THEN 1 ELSE 0) |-> k - x]
          /\ Len(calls) = Len(forwards) + Len(resets)
          /\ \A x \in 1..Len(forwards) : calls[x].op = "forward" /\ calls[x].n = 1
          /\ probe.result =>
                /\ fns[i + 1] = fw[i]
                /\ \A j \in 0..(i - 1) : fns[j + 1] = f[j + 1]
                /\ \A j \in (i + 1)..(fn_num - 1) :
                      /\ ~fns[j + 1].eos /\ fns[j + 1].cur_offset = 0
                      /\ fns[j + 1].cur_size = f[j + 1].cur_size
                /\ resets = [x \in 1..(fn_num - 1 - i) |-> i + x]
          /\ ~probe.result =>
                /\ resets = <<>>
                /\ \A j \in 0..(k - 1) : fns[j + 1] = fw[j] /\ fns[j + 1].eos
                /\ \A j \in k..(fn_num - 1) : fns[j + 1] = f[j + 1]
                /\ (\A j \in k..(fn_num - 1) : f[j + 1].eos) =>
                      \A j \in 1..fn_num : fns[j].eos

\* Three instances, k = 2: instance 1 is eos after its forward, instance 0 is
\* not, and the instances 1 and 2 are reset.
C12_Witness ==
    /\ probe.op = "roll" /\ fn_num = 3 /\ probe.k = 2
    /\ probe.result
    /\ CallsOf(calls, "forward") = <<1, 0>>
    /\ CallsOf(calls, "reset") = <<1, 2>>

\* The positions of the calls of `op` in the log.
Where(log, op) == {x \in 1..Len(log) : log[x].op = op}

\* The instances 0..N-1 in their order.
Instances == [x \in 1..fn_num |-> x - 1]

\* C13 as stated: every time a row is left, process_close is called on every
\* instance before the next row is bound.
C13_Original ==
    last_row.off >= 0 =>
       /\ CallsOf(calls, "process_close") = Instances
       /\ \A x \in Where(calls, "process_close"), y \in Where(calls, "process_row") :
             x < y

\* C13 amended: every time a row is left the pending count is flushed first,
\* all of it for the row left; then, if the block has a further row, every
\* instance is bound to it and none is closed, and if the row was the last of
\* its block every instance is closed once, the block is cleared and no row
\* is bound: process_close is called once per consumed block.
C13_LeaveRow ==
    /\ last_row.off >= 0 =>
          /\ last_row.copies = Len(last_row.hist)
          /\ \A x \in Where(calls, "copy") :
                calls[x].i = last_row.off <=>
                   \A y \in Where(calls, "process_close") \cup
                            Where(calls, "process_row") : x < y
          /\ IF last_row.off + 1 < block_rows
             THEN /\ CallsOf(calls, "process_close") = <<>>
                  /\ CallsOf(calls, "process_row") = Instances
                  /\ \A y \in Where(calls, "process_row") :
                        calls[y].n = last_row.off + 1
                  /\ cur_child_offset = last_row.off + 1
             ELSE /\ CallsOf(calls, "process_close") = Instances
                  /\ CallsOf(calls, "process_row") = <<>>
                  /\ cur_child_offset = -1 /\ child_block = <<>>
    /\ (last_row.off < 0 /\ pc # "probe" /\ pc # "done") =>
          CallsOf(calls, "process_close") = <<>>

\* The first row of a block of two has been left with rows pending: they
\* were flushed and the second row bound, no instance closed.
C13_Witness ==
    /\ last_row.off = 0 /\ block_rows = 2 /\ cur_child_offset = 1
    /\ \E x \in Where(calls, "copy") : calls[x].i = 0
    /\ CallsOf(calls, "process_close") = <<>>
    /\ fn_num = 2

\* The step ended with an emit and the loop goes on: the state right after
\* an append.
AfterEmit == pc = "inner" /\ Where(calls, "get_value") # {}

\* C14 as stated: after every append the needed pass-through column and the
\* last-TVF column have the same row count.
C14_Original ==
    AfterEmit => Len(pass_column) = Len(columns[fn_num])

\* C14 amended: after every append the needed pass-through column is behind
\* the last-TVF column by the pending count _current_row_insert_times, which
\* is at least one; the two are level whenever the pending count is zero.
C14_Deferred ==
    /\ AfterEmit =>
          /\ current_row_insert_times >= 1
          /\ Len(pass_column) + current_row_insert_times = Len(columns[fn_num])
    /\ (pc \in {"idle", "push", "outer", "inner"} /\ current_row_insert_times = 0) =>
          Len(pass_column) = Len(columns[fn_num])

\* An emit of two instances is pending: the pass-through column is one short.
C14_Witness ==
    /\ AfterEmit
    /\ fn_num = 2
    /\ current_row_insert_times = 1
    /\ Len(columns[fn_num]) = Len(pass_column) + 1

\* C15: when a fill hands the batch to the filter every output column has
\* the same row count (the N TVF columns, the needed and the useless
\* pass-through column) and the useless column holds defaults only; in every
\* state of the fill loop the needed column's size plus
\* _current_row_insert_times is the TVF column size, and the N TVF columns
\* are of one size at every loop-condition check.
C15_Columns ==
    /\ (ret /\ status \in {"OK", "ERROR"}) =>
          /\ \A i \in 1..fn_num : Len(columns[i]) = Len(columns[1])
          /\ Len(pass_column) = Len(columns[1])
          /\ Len(useless_column) = Len(columns[1])
    /\ \A j \in 1..Len(useless_column) : useless_column[j] = NULL
    /\ pc \in {"outer", "inner"} =>
          /\ Len(pass_column) + current_row_insert_times = Len(columns[1])
          /\ \A i \in 1..fn_num : Len(columns[i]) = Len(columns[1])

\* A fill of two instances has handed over a batch of two rows, the last of
\* them flushed by the final flush.
C15_Witness ==
    /\ ret /\ status = "OK" /\ fn_num = 2
    /\ Len(useless_column) = 2 /\ Len(pass_column) = 2
    /\ \E x \in Where(calls, "copy") :
          \A y \in Where(calls, "get_value") : y < x

\* C16: the rows of a child block are bound once each in increasing order
\* (-1, 0, 1, ..., rows-1, -1); a bound row is left only in a state in which
\* all its instances are eos or the skip condition holds; the block is
\* cleared, and the offset reset to -1, only on leaving its last row, and
\* never while a row remains to be bound.
C16_Consume ==
    [][/\ (cur_child_offset >= 0 /\ cur_child_offset' # cur_child_offset) =>
            /\ (\A i \in 1..fn_num : fns[i].eos) \/ skip_child_row
            /\ IF cur_child_offset + 1 < block_rows
               THEN /\ cur_child_offset' = cur_child_offset + 1
                    /\ child_block' = child_block
               ELSE /\ cur_child_offset' = -1
                    /\ child_block' = <<>>
       /\ (cur_child_offset = -1 /\ cur_child_offset' # -1) =>
            /\ cur_child_offset' = 0
            /\ Len(child_block) = block_rows /\ child_block' = child_block
       /\ (child_block # <<>> /\ child_block' # child_block) =>
            /\ child_block' = <<>>
            /\ cur_child_offset = block_rows - 1
            /\ Len(child_block) = block_rows
       /\ (cur_child_offset >= 0 /\ cur_child_offset' = cur_child_offset) =>
            child_block' = child_block]_vars

\* A block of two rows is drained: its second row has just been left, the
\* first was left by the skip condition.
C16_Witness ==
    /\ block_rows = 2 /\ last_row.off = 1
    /\ cur_child_offset = -1 /\ child_block = <<>>
    /\ rows_skipped = 1

\* A row is bound in which an instance that is not outer has no value.
SkipRow == cur_child_offset >= 0 /\ InnerEmpty(CurSizes)

\* The calls that expand a row.
ExpandOps == {"forward", "reset", "get_value", "get_same_many_values"}

\* The positions in the log at which a row is bound or the block closed.
Binds(log) == Where(log, "process_row") \cup Where(log, "process_close")

\* C17: the skip condition is row-invariant.  While a row stays bound
\* _is_inner_and_empty gives the same result; the skip flag is set only on a
\* row with an empty instance that is not outer; for such a row nothing has
\* been emitted, every instance is at its first value, and from its binding
\* to its abandonment no forward, reset, get_value or
\* get_same_many_values is called.
C17_SkipInvariant ==
    /\ [](/\ (pc = "inner" /\ skip_child_row) => SkipRow
          /\ SkipRow =>
                /\ row_hist = <<>> /\ current_row_insert_times = 0
                /\ \A i \in 1..fn_num : fns[i].cur_offset = 0 /\ ~fns[i].eos
                /\ \A x \in 1..Len(calls) :
                      calls[x].op \in ExpandOps =>
                         \E y \in Binds(calls) : x < y)
    /\ [][/\ (cur_child_offset >= 0 /\ cur_child_offset' = cur_child_offset) =>
                _is_inner_and_empty(fns', is_outer, fn_num) =
                   _is_inner_and_empty(fns, is_outer, fn_num)
          /\ (SkipRow /\ pc \in {"idle", "outer", "inner"}) =>
                /\ \A x \in 1..Len(calls') :
                      calls'[x].op \in ExpandOps =>
                         \E y \in Binds(calls') : y < x
                /\ cur_child_offset' # cur_child_offset =>
                      /\ skip_child_row
                      /\ last_row'.hist = <<>>
                      /\ rows_skipped' = rows_skipped + 1]_vars

\* A row bound by push, in which the first of two instances has two values
\* and the second, not outer, has none, has been abandoned by a later fill.
C17_Witness ==
    /\ fn_num = 2 /\ last_row.off = 0
    /\ last_row.sizes = <<2, 0>> /\ ~is_outer[2]
    /\ last_row.hist = <<>>
    /\ rows_skipped >= 1

\* Two instances, the first outer, the second not: rows are expanded, padded
\* for an empty outer instance, and skipped for an empty second instance.
\* The operator under its scheduling: the pipeline task keeps pulling while
\* the operator has not reported its end, a call that is running goes on, and
\* a block that was fetched is pushed.  The child is not bound to deliver.
InitLive ==
    /\ fn_num = 2
    /\ is_outer = <<TRUE, FALSE>>
    /\ batch_size \in 1..MaxBatch
    /\ max_vals = MaxVals
    /\ Start

SpecLive ==
    /\ InitLive /\ [][Next]_vars
    /\ WF_vars(Fill) /\ WF_vars(OuterLoop) /\ WF_vars(InnerLoop) /\ WF_vars(Push)

\* A call may start with a row bound.
RowBoundAtEntry == pc = "idle" /\ status = "OK" /\ cur_child_offset >= 0

\* The call returning in m has appended a row or moved _cur_child_offset.
Progressed(m) ==
    Len(m.columns[1]) >= 1 \/ m.cur_child_offset # cur_child_offset

Init3 ==
    /\ fn_num = ProbeFn
    /\ is_outer \in [1..fn_num -> BOOLEAN]
    /\ batch_size \in 1..MaxBatch
    /\ max_vals = MaxVals
    /\ Start

Spec3 == Init3 /\ [][Next]_vars

\* The inner loop is at its condition and will evaluate
\* _find_last_fn_eos_idx.
FindEvaluated == pc = "inner" /\ Len(columns[1]) < batch_size

\* The instances that are eos.
EosSet == {i \in 1..fn_num : fns[i].eos}

\* C19: whenever _find_last_fn_eos_idx is evaluated in get_expanded_block a
\* row is bound and the eos instances are none, the last one alone, or all;
\* the index returned is -1, N-1 or 0 accordingly, -1 exactly when no
\* instance is eos; and the iteration calls get_value only on a last
\* instance that is not eos.
C19_EosSuffix ==
    FindEvaluated =>
       LET idx == _find_last_fn_eos_idx(fns, fn_num)
       IN /\ cur_child_offset >= 0
          /\ EosSet \in {{}, {fn_num}, 1..fn_num}
          /\ idx \in {-1, fn_num - 1, 0}
          /\ idx = -1 <=> EosSet = {}
          /\ idx = 0 <=> EosSet = 1..fn_num
          /\ \A sizes \in (IF WillBind(Mach, Cfg) THEN RowSet(fn_num) ELSE {<<>>}) :
                LET a == InnerStep(Mach, Cfg, sizes)
                IN a.pc = "emit" => ~a.fns[fn_num].eos

\* Of three instances the last alone is eos, the first has been forwarded
\* by a roll and the second is at its second value.
C19_Witness ==
    /\ FindEvaluated /\ fn_num = 3
    /\ EosSet = {3}
    /\ fns[1].cur_offset = 1 /\ fns[2].cur_offset = 1

\* C20: with no row bound the pending count is zero; between calls the
\* child block has rows exactly if a row is bound, and a bound row is a row
\* of the block; _copy_output_slots inserts only with a row bound, reads the
\* block inside its rows, and the rows still pending all come from the row
\* that is bound.
C20_RowBound ==
    /\ cur_child_offset = -1 => current_row_insert_times = 0
    /\ pc = "idle" => (Len(child_block) > 0 <=> cur_child_offset >= 0)
    /\ cur_child_offset >= 0 => cur_child_offset < Len(child_block)
    /\ \A x \in Where(calls, "copy") : calls[x].i >= 0 /\ calls[x].n >= 1
    /\ \A j \in 1..Len(pass_column) : pass_column[j] = PassValue(origin[j])
    /\ Len(origin) = Len(pass_column) + current_row_insert_times
    /\ \A j \in (Len(pass_column) + 1)..Len(origin) : origin[j] = cur_child_offset

\* The second row of a block has been flushed and left, the block is
\* drained and no row is bound.
C20_Witness ==
    /\ cur_child_offset = -1 /\ block_rows = 2 /\ child_block = <<>>
    /\ \E x \in Where(calls, "copy") : calls[x].i = 1
    /\ Len(pass_column) >= 1 /\ pass_column[Len(pass_column)] = PassValue(1)

TypeOK ==
    /\ pc \in {"idle", "push", "outer", "inner", "probe", "done"}
    /\ status \in {"OK", "CANCELLED", "ERROR"}
    /\ cur_child_offset \in -1..MaxRows
====
